---- MODULE Spec2Model ----
(***************************************************************************)
(* Model of src/integrations/expressApollo.ts: the express middleware      *)
(* returned by graphqlHTTP (one POST request with a JSON body, single or   *)
(* batched, answered through the executor runQuery) and the middleware     *)
(* returned by renderGraphiQL (the explorer page).                         *)
(*                                                                         *)
(* One behaviour is one request.  An async handler runs to completion      *)
(* between two awaits; its position is pc.  The collaborators (the options *)
(* resolver, runQuery, the template renderer) are the environment: a       *)
(* pending promise is settled by an action of its own, either way.         *)
(***************************************************************************)
EXTENDS Integers, Sequences, FiniteSets, TLC

VARIABLES
    route,          \* which middleware the request is dispatched to
    options,        \* the argument of graphqlHTTP
    graphiqlOptions,\* the argument of renderGraphiQL (GraphiQLData)
    req,            \* the express request: method, body, query
    pc,             \* position of the handler
    optionsObject,  \* let optionsObject (line 56)
    b,              \* let b (line 78), a sequence of request items
    isBatch,        \* let isBatch (line 79)
    idx,            \* position of the for..of loop over b (1-based)
    responses,      \* let responses (line 87)
    inflight,       \* items whose runQuery promise is pending
    calls,          \* every invocation of runQuery so far, with its params
    raised,         \* every error thrown inside the try block so far
    res,            \* the express response
    rendered        \* what GraphiQL.renderGraphiQL was called with

vars == <<route, options, graphiqlOptions, req, pc, optionsObject, b, isBatch,
          idx, responses, inflight, calls, raised, res, rendered>>

----------------------------------------------------------------------------
(* Bounds *)

\* longest batch (array body) a request carries
MaxBatch == 3

----------------------------------------------------------------------------
(* JavaScript values *)

Undefined == [t |-> "undefined", v |-> ""]
Null      == [t |-> "null", v |-> ""]
Str(s)    == [t |-> "string", v |-> s]
Obj(o)    == [t |-> "object", v |-> o]

\* ToBoolean, as used by !x, x || y and if (x)
Truthy(x) == ~(x.t \in {"undefined", "null"} \/ x = Str(""))

\* a || c
Or(a, c) == IF Truthy(a) THEN a ELSE c

\* typeof x === 'string'
IsString(x) == x.t = "string"

\* JSON.parse on the JSON texts of the model: the value, or a SyntaxError
JSONTexts == {"{}", "null", "{\"a\":1}", "{\"b\":2}"}

JSONParse(s) ==
    IF s = "{}" THEN Obj("{}")
    ELSE IF s = "null" THEN Null
    ELSE IF s = "{\"a\":1}" THEN Obj("{a:1}")
    ELSE Obj("{b:2}")

JSONParseThrows(s) == s \notin JSONTexts

\* JSON.stringify of a result object: a property whose value is undefined
\* is left out
JSONStringify(r) ==
    [k \in {f \in DOMAIN r : r[f] # Undefined} |-> r[k]]

\* JSON.stringify of an array of result objects
JSONStringifyAll(rs) == [i \in 1..Len(rs) |-> JSONStringify(rs[i])]

----------------------------------------------------------------------------
(* Requests and configurations of graphqlHTTP *)

\* One entry of the body: an object with the three properties read at
\* lines 90-92, or null (reading a property of null throws a TypeError).
Item(q, v, o) == [isNull |-> FALSE, query |-> q, variables |-> v,
                  operationName |-> o]

NullItem == [isNull |-> TRUE, query |-> Undefined, variables |-> Undefined,
             operationName |-> Undefined]

Items ==
    { Item(Str("q1"), Obj("{a:1}"), Undefined),
      Item(Str("q2"), Str("{\"a\":1}"), Str("op")),
      Item(Str("q2"), Str("{bad"), Undefined),
      Item(Undefined, Undefined, Str("op")),
      Item(Str(""), Str("{\"b\":2}"), Undefined),
      NullItem }

\* the sequences over S of length lo..hi
SeqsUpTo(S, lo, hi) == UNION { [1..n -> S] : n \in lo..hi }

\* req.body: undefined when no body parser ran, a falsy parsed value (JSON
\* null), a single object, or an array of items.  items is what [b] or b
\* would hold (lines 82-85); a property of undefined or null cannot be read.
Bodies ==
    { [kind |-> "undefined", items |-> <<NullItem>>],
      [kind |-> "null", items |-> <<NullItem>>] }
    \cup { [kind |-> "object", items |-> <<it>>] : it \in Items \ {NullItem} }
    \cup { [kind |-> "array", items |-> s] : s \in SeqsUpTo(Items, 0, MaxBatch) }

Methods == {"POST", "GET", "PUT"}

\* ExpressApolloOptions (lines 21-30), the properties the handler reads
\* itself: formatError is absent or a function; formatParams is absent, a
\* function that supplies the query (as a persisted-query lookup does), or
\* a function that throws.
OptionsObjects ==
    [formatError : {"undefined", "custom"},
     formatParams : {"undefined", "setQuery", "throws"}]

\* ExpressApolloOptions | ExpressApolloOptionsFunction (line 45)
OptionsArgs == [isFunction : BOOLEAN, object : OptionsObjects]

NoOptionsObject == [formatError |-> "unresolved", formatParams |-> "unresolved"]

\* isOptionsFunction (lines 139-141)
isOptionsFunction(arg) == arg.isFunction

----------------------------------------------------------------------------
(* Errors and results *)

Err(name, message) == [name |-> name, message |-> message]

\* graphql.formatError (the default) or optionsObject.formatError (line 63)
formatErrorFn(opts, e) ==
    IF opts.formatError = "undefined"
    THEN [message |-> e.message, by |-> "graphql.formatError"]
    ELSE [message |-> e.message, by |-> "options.formatError"]

\* { errors: [formatErrorFn(e)] } (line 121)
ErrorResult(opts, e) == [data |-> Undefined, errors |-> <<formatErrorFn(opts, e)>>]

\* what runQuery can settle with for given params: a result with data, a
\* result with data and errors, a result with errors and no data, or a
\* rejection
ExecutorOutcomes == {"data", "data+errors", "errors", "reject"}

ExecData(params) ==
    [t |-> "object", v |-> "data",
     of |-> <<params.query, params.variables, params.operationName>>]

ExecError(params) == [message |-> "executor", by |-> params.formatError]

ExecResult(kind, params) ==
    IF kind = "data" THEN [data |-> ExecData(params), errors |-> Undefined]
    ELSE IF kind = "data+errors"
    THEN [data |-> ExecData(params), errors |-> <<ExecError(params)>>]
    ELSE [data |-> Undefined, errors |-> <<ExecError(params)>>]

ExecRejection == Err("Error", "runQuery rejected")

----------------------------------------------------------------------------
(* The body of the try block, lines 90-117 *)

NoError == Err("", "")

\* lines 94-97: a string is parsed, anything else is passed as it is
ParsedVariables(item) ==
    IF IsString(item.variables) THEN JSONParse(item.variables.v)
    ELSE item.variables

\* let params (lines 99-109): the properties that depend on the item or
\* that the executor's result depends on
AssembledParams(item, opts) ==
    [query |-> item.query,
     variables |-> ParsedVariables(item),
     operationName |-> item.operationName,
     formatError |-> formatErrorFn(opts, NoError).by]

\* optionsObject.formatParams(params) (lines 111-113)
formatParams(opts, params) ==
    IF opts.formatParams = "setQuery"
    THEN [params EXCEPT !.query = Or(params.query, Str("persisted"))]
    ELSE params

FinalParams(item, opts) == formatParams(opts, AssembledParams(item, opts))

\* the first error the try block throws before runQuery is called, in the
\* order of the statements, or NoError
ItemError(item, opts) ==
    IF item.isNull
    THEN Err("TypeError", "Cannot read property 'query' of null")
    ELSE IF IsString(item.variables) /\ JSONParseThrows(item.variables.v)
    THEN Err("SyntaxError", "Unexpected token in JSON")
    ELSE IF opts.formatParams = "throws"
    THEN Err("Error", "formatParams failed")
    ELSE IF ~Truthy(FinalParams(item, opts).query)
    THEN Err("Error", "Must provide query string.")
    ELSE NoError

----------------------------------------------------------------------------
(* The express response *)

NoBody == [type |-> "none"]
Text(s) == [type |-> "text", text |-> s]
JsonObject(j) == [type |-> "json object", json |-> j]
JsonArray(j) == [type |-> "json array", json |-> j]

\* a fresh response: status 200 until res.status is called, no header set,
\* nothing sent
FreshRes ==
    [statusCode |-> 200, statusCalls |-> 0, allow |-> "", contentType |-> "",
     body |-> NoBody, sends |-> 0]

Send(r, body) == [r EXCEPT !.body = body, !.sends = @ + 1]
Status(r, code) == [r EXCEPT !.statusCode = code, !.statusCalls = @ + 1]

MethodNotAllowedText == "Apollo Server supports only POST requests."
BodyMissingText ==
    "POST body missing. Did you forget \"app.use(bodyParser.json())\"?"

----------------------------------------------------------------------------
(* graphqlHTTP: the handler, lines 55-136 *)

hvars == <<optionsObject, b, isBatch, idx, responses, inflight, calls, raised>>
fixed == <<route, options, graphiqlOptions, req, rendered>>

\* lines 57, 59-61: a static configuration is used as it is
OptionsStatic ==
    /\ route = "graphql" /\ pc = "start"
    /\ ~isOptionsFunction(options)
    /\ optionsObject' = options.object
    /\ pc' = "checkRequest"
    /\ UNCHANGED <<fixed, b, isBatch, idx, responses, inflight, calls, raised, res>>

\* lines 57-58: options(req) is called and awaited
OptionsCall ==
    /\ route = "graphql" /\ pc = "start"
    /\ isOptionsFunction(options)
    /\ pc' = "awaitOptions"
    /\ UNCHANGED <<fixed, hvars, res>>

\* line 58: the awaited configuration arrives
OptionsFulfilled ==
    /\ pc = "awaitOptions"
    /\ optionsObject' = options.object
    /\ pc' = "checkRequest"
    /\ UNCHANGED <<fixed, b, isBatch, idx, responses, inflight, calls, raised, res>>

\* line 58: options(req) throws or its promise rejects; nothing catches it,
\* the handler's own promise rejects
OptionsRejected ==
    /\ pc = "awaitOptions"
    /\ pc' = "rejected"
    /\ UNCHANGED <<fixed, hvars, res>>

\* variant of MethodRejected: only GET is turned away (a deny-list in place
\* of the allow-list)
MethodRejectedGetOnly(r) == r.method = "GET"

\* req.method !== 'POST' (line 65)
MethodRejected(r) == r.method # "POST"

\* variant of BodyMissing: the check of line 72 left out
BodyCheckOmitted(r) == FALSE

\* !req.body (line 72)
BodyMissing(r) == r.body.kind \in {"undefined", "null"}

\* variant of RequestCheck: the body is checked before the method
RequestCheckBodyFirst(r) ==
    IF r.body.kind \in {"undefined", "null"} THEN 500
    ELSE IF r.method # "POST" THEN 405
    ELSE 200

\* the request-level checks in the order of lines 65-76
RequestCheck(r) ==
    IF MethodRejected(r) THEN 405
    ELSE IF BodyMissing(r) THEN 500
    ELSE 200

\* lines 65-70
RejectMethod ==
    /\ pc = "checkRequest"
    /\ RequestCheck(req) = 405
    /\ res' = Send(Status([res EXCEPT !.allow = "POST"], 405),
                   Text(MethodNotAllowedText))
    /\ pc' = "done"
    /\ UNCHANGED <<fixed, hvars>>

\* lines 72-76
RejectBody ==
    /\ pc = "checkRequest"
    /\ RequestCheck(req) = 500
    /\ res' = Send(Status(res, 500), Text(BodyMissingText))
    /\ pc' = "done"
    /\ UNCHANGED <<fixed, hvars>>

\* lines 78-87: an array is a batch, anything else a batch of one
NormalizeBody ==
    /\ pc = "checkRequest"
    /\ RequestCheck(req) = 200
    /\ isBatch' = (req.body.kind = "array")
    /\ b' = req.body.items
    /\ responses' = <<>>
    /\ idx' = 1
    /\ pc' = "loop"
    /\ UNCHANGED <<fixed, optionsObject, inflight, calls, raised, res>>

\* variant of Push: unshift in place of push
PushFront(rs, r) == <<r>> \o rs

\* responses.push(r) (lines 119, 121)
Push(rs, r) == Append(rs, r)

\* variant of Catch: no catch clause, the error leaves the handler
NoCatch(e) ==
    /\ responses' = responses
    /\ idx' = idx
    /\ pc' = "rejected"

\* catch (e) (lines 120-122): the error becomes the item's result and the
\* loop goes on.  The formatter, configured or default, is taken to return.
Catch(e) ==
    /\ responses' = Push(responses, ErrorResult(optionsObject, e))
    /\ idx' = idx + 1
    /\ pc' = "loop"

\* an error is thrown inside the try block while item i is processed
Throw(i, e) == raised' = Append(raised, [item |-> i, error |-> e])

\* lines 88-117 and 120-122: the try block throws before runQuery is called
ItemThrows ==
    /\ pc = "loop" /\ idx <= Len(b)
    /\ ItemError(b[idx], optionsObject) # NoError
    /\ Throw(idx, ItemError(b[idx], optionsObject))
    /\ Catch(ItemError(b[idx], optionsObject))
    /\ UNCHANGED <<fixed, optionsObject, b, isBatch, inflight, calls, res>>

\* variant of Suspend: the promise is not awaited, the loop goes on
NoSuspend(i) == pc' = "loop" /\ idx' = i + 1

\* await (line 119): the handler is suspended on item i until the promise
\* of runQuery settles
Suspend(i) == pc' = "awaitRunQuery" /\ idx' = i

\* lines 88-119: runQuery(params) is called
ItemCallsExecutor ==
    /\ pc = "loop" /\ idx <= Len(b)
    /\ ItemError(b[idx], optionsObject) = NoError
    /\ calls' = Append(calls, [item |-> idx,
                               params |-> FinalParams(b[idx], optionsObject)])
    /\ inflight' = inflight \cup {idx}
    /\ Suspend(idx)
    /\ UNCHANGED <<fixed, optionsObject, b, isBatch, responses, raised, res>>

\* line 119: the promise is fulfilled and the result pushed
RunQueryResolves ==
    /\ pc = "awaitRunQuery"
    /\ \E kind \in ExecutorOutcomes \ {"reject"} :
         responses' = Push(responses, ExecResult(kind, calls[Len(calls)].params))
    /\ inflight' = inflight \ {idx}
    /\ idx' = idx + 1
    /\ pc' = "loop"
    /\ UNCHANGED <<fixed, optionsObject, b, isBatch, calls, raised, res>>

\* lines 119-122: the promise is rejected, the await throws into the catch
RunQueryRejects ==
    /\ pc = "awaitRunQuery"
    /\ inflight' = inflight \ {idx}
    /\ Throw(idx, ExecRejection)
    /\ Catch(ExecRejection)
    /\ UNCHANGED <<fixed, optionsObject, b, isBatch, calls, res>>

\* variant of IsBadRequest: the data property is not looked at
IsBadRequestErrorsOnly(gqlResponse) == gqlResponse.errors # Undefined

\* line 130: errors is truthy (an array is) and typeof data is 'undefined'
IsBadRequest(gqlResponse) ==
    (gqlResponse.errors # Undefined) /\ gqlResponse.data = Undefined

\* variant of Respond: the status is derived from the first result whether
\* the request is a batch or not
RespondStatusAlways(r, batch, rs) ==
    LET r1 == IF Len(rs) > 0 /\ IsBadRequest(rs[1]) THEN Status(r, 400) ELSE r
    IN  IF batch THEN Send(r1, JsonArray(JSONStringifyAll(rs)))
        ELSE Send(r1, JsonObject(JSONStringify(rs[1])))

\* lines 126-134: the status and the body of the JSON response
Respond(r, batch, rs) ==
    IF batch THEN Send(r, JsonArray(JSONStringifyAll(rs)))
    ELSE IF IsBadRequest(rs[1])
    THEN Send(Status(r, 400), JsonObject(JSONStringify(rs[1])))
    ELSE Send(r, JsonObject(JSONStringify(rs[1])))

\* lines 125-134
SendResponse ==
    /\ pc = "loop" /\ idx > Len(b)
    /\ res' = Respond([res EXCEPT !.contentType = "application/json"],
                      isBatch, responses)
    /\ pc' = "done"
    /\ UNCHANGED <<fixed, hvars>>

----------------------------------------------------------------------------
(* renderGraphiQL: the explorer middleware, lines 154-171 *)

\* GraphiQLData (lines 145-152): the endpoint and the optional defaults
GraphiQLDatas ==
    [endpointURL : {Str("/graphql")},
     query : {Undefined, Str("{ configured }")},
     variables : {Undefined, Obj("{v:1}")},
     operationName : {Undefined, Str("ConfiguredOp")}]

\* req.query: the parsed query string (absent when the host parses none);
\* a parameter is absent, empty, or a text
QueryStrings ==
    [present : {TRUE},
     query : {Undefined, Str(""), Str("foo")},
     variables : {Undefined, Str(""), Str("{}"), Str("null"),
                  Str("{\"b\":2}"), Str("{bad")},
     operationName : {Undefined, Str("RequestOp")}]

NoQueryString ==
    [present |-> FALSE, query |-> Undefined, variables |-> Undefined,
     operationName |-> Undefined]

\* const q = req.query || {} (line 157)
QueryOf(r) ==
    IF r.query.present THEN r.query
    ELSE [present |-> FALSE, query |-> Undefined, variables |-> Undefined,
          operationName |-> Undefined]

\* lines 158-160: const query, variables, operationName
LocalQuery(r) == Or(QueryOf(r).query, Str(""))
LocalVariables(r) == Or(QueryOf(r).variables, Str("{}"))
LocalOperationName(r) == Or(QueryOf(r).operationName, Str(""))

\* lines 163-168: the argument of GraphiQL.renderGraphiQL
RenderArgs(o, r) ==
    [endpointURL |-> o.endpointURL,
     query |-> Or(LocalQuery(r), o.query),
     variables |-> Or(JSONParse(LocalVariables(r).v), o.variables),
     operationName |-> Or(LocalOperationName(r), o.operationName)]

NotRendered ==
    [endpointURL |-> Undefined, query |-> Undefined, variables |-> Undefined,
     operationName |-> Undefined]

\* line 166: JSON.parse throws, the middleware throws into the framework
GraphiQLThrows ==
    /\ route = "graphiql" /\ pc = "start"
    /\ JSONParseThrows(LocalVariables(req).v)
    /\ pc' = "threw"
    /\ UNCHANGED <<fixed, hvars, res>>

\* lines 155-171
GraphiQLRenders ==
    /\ route = "graphiql" /\ pc = "start"
    /\ ~JSONParseThrows(LocalVariables(req).v)
    /\ rendered' = RenderArgs(graphiqlOptions, req)
    /\ res' = Send([res EXCEPT !.contentType = "text/html"],
                   [type |-> "html", of |-> RenderArgs(graphiqlOptions, req)])
    /\ pc' = "done"
    /\ UNCHANGED <<route, options, graphiqlOptions, req, hvars>>

----------------------------------------------------------------------------
(* One request *)

Requests ==
    [method : Methods, body : Bodies, query : {NoQueryString}]

GraphiQLRequests ==
    [method : {"GET"}, body : {[kind |-> "undefined", items |-> <<NullItem>>]},
     query : QueryStrings \cup {NoQueryString}]

InitHandler ==
    /\ pc = "start"
    /\ optionsObject = NoOptionsObject
    /\ b = <<>>
    /\ isBatch = FALSE
    /\ idx = 0
    /\ responses = <<>>
    /\ inflight = {}
    /\ calls = <<>>
    /\ raised = <<>>
    /\ res = FreshRes
    /\ rendered = NotRendered

\* a request to the endpoint graphqlHTTP(options) is mounted on
InitGraphQL ==
    /\ route = "graphql"
    /\ options \in OptionsArgs
    /\ graphiqlOptions = [endpointURL |-> Str("/graphql"), query |-> Undefined,
                          variables |-> Undefined, operationName |-> Undefined]
    /\ req \in Requests
    /\ InitHandler

\* a request to the page renderGraphiQL(options) is mounted on
InitGraphiQL ==
    /\ route = "graphiql"
    /\ options = [isFunction |-> FALSE,
                  object |-> [formatError |-> "undefined",
                              formatParams |-> "undefined"]]
    /\ graphiqlOptions \in GraphiQLDatas
    /\ req \in GraphiQLRequests
    /\ InitHandler

Init == InitGraphQL \/ InitGraphiQL

Next ==
    \/ OptionsStatic
    \/ OptionsCall
    \/ OptionsFulfilled
    \/ OptionsRejected
    \/ RejectMethod
    \/ RejectBody
    \/ NormalizeBody
    \/ ItemThrows
    \/ ItemCallsExecutor
    \/ RunQueryResolves
    \/ RunQueryRejects
    \/ SendResponse
    \/ GraphiQLThrows
    \/ GraphiQLRenders

Spec == Init /\ [][Next]_vars

----------------------------------------------------------------------------
(* Properties *)

IsPost == route = "graphql" /\ req.method = "POST"
BodyAbsent == req.body.kind \in {"undefined", "null"}
ConfiguredFormatter ==
    IF options.object.formatError = "custom" THEN "options.formatError"
    ELSE "graphql.formatError"

\* the message of the error item `it` fails with before the executor is
\* reached, "" when it reaches the executor
ExpectedFailure(it) ==
    IF it.isNull THEN "Cannot read property 'query' of null"
    ELSE IF it.variables = Str("{bad") THEN "Unexpected token in JSON"
    ELSE IF options.object.formatParams = "throws" THEN "formatParams failed"
    ELSE IF it.query \in {Undefined, Str("")}
            /\ options.object.formatParams # "setQuery"
    THEN "Must provide query string."
    ELSE ""

\* the parameters the executor is expected to be given for item `it`
ExpectedEcho(it) ==
    << IF it.query \in {Undefined, Str("")} THEN Str("persisted") ELSE it.query,
       IF it.variables = Str("{\"a\":1}") THEN Obj("{a:1}")
       ELSE IF it.variables = Str("{\"b\":2}") THEN Obj("{b:2}")
       ELSE it.variables,
       it.operationName >>

\* result r is an outcome of item `it`
IsOutcomeOf(r, it) ==
    IF ExpectedFailure(it) # ""
    THEN r = [data |-> Undefined,
              errors |-> << [message |-> ExpectedFailure(it),
                             by |-> ConfiguredFormatter] >>]
    ELSE \/ /\ r.data # Undefined
            /\ r.data.of = ExpectedEcho(it)
         \/ /\ r.data = Undefined
            /\ r.errors # Undefined
            /\ r.errors[1].message \in {"executor", "runQuery rejected"}

\* the serialized form j is the serialization of result r
IsJsonOf(j, r) ==
    /\ DOMAIN j = {f \in {"data", "errors"} : r[f] # Undefined}
    /\ \A f \in DOMAIN j : j[f] = r[f]

\* C1: for a batch POST of N items the handler sends a JSON array of exactly
\* N results, and result i is the outcome of item i, whichever items fail;
\* while the loop runs, the results so far are those of the first items, in
\* order.
C1_BatchOrder ==
    (IsPost /\ req.body.kind = "array") =>
        LET items == req.body.items
        IN  /\ Len(responses) <= Len(items)
            /\ \A i \in 1..Len(responses) : IsOutcomeOf(responses[i], items[i])
            /\ pc = "done" =>
                 /\ res.sends = 1
                 /\ res.body.type = "json array"
                 /\ Len(res.body.json) = Len(items)
                 /\ \A i \in 1..Len(items) :
                        /\ IsJsonOf(res.body.json[i], responses[i])
                        /\ IsOutcomeOf(responses[i], items[i])

\* a batch whose first item fails and whose second succeeds has been answered
C1_Witness ==
    /\ IsPost /\ req.body.kind = "array" /\ pc = "done"
    /\ Len(req.body.items) >= 2
    /\ responses[1].data = Undefined
    /\ responses[2].data # Undefined
    /\ res.sends = 1

\* C2: an error raised while an item is processed (reading its fields,
\* parsing its variables, formatParams, the query check, the executor) is
\* that item's result { errors: [formatted] }, formatted by the configured
\* or the default formatter; it never leaves the handler, the loop goes on
\* with the next item and the response is sent.
C2_ItemErrorsRecovered ==
    raised # <<>> =>
        /\ pc \in {"loop", "awaitRunQuery", "done"}
        /\ \A k \in 1..Len(raised) :
              LET r == raised[k]
              IN  /\ r.item <= Len(responses)
                  /\ responses[r.item] =
                        [data |-> Undefined,
                         errors |-> << [message |-> r.error.message,
                                        by |-> ConfiguredFormatter] >>]
        /\ pc \in {"loop", "awaitRunQuery"} => idx > raised[Len(raised)].item
        /\ pc = "done" => /\ res.sends = 1
                          /\ res.body.type \in {"json array", "json object"}
                          /\ Len(responses) = Len(b)

\* a batch in which an item's variables did not parse and a later item got
\* a result with data has been answered
C2_Witness ==
    /\ pc = "done"
    /\ \E k \in 1..Len(raised) :
          /\ raised[k].error.name = "SyntaxError"
          /\ raised[k].item < Len(responses)
          /\ responses[Len(responses)].data # Undefined

\* C3: a request whose method is not POST is answered 405 with Allow: POST
\* and the fixed text, whatever its body and however the configuration is
\* given; the body is not looked at.
C3_MethodNotAllowed ==
    (route = "graphql" /\ req.method # "POST") =>
        /\ pc \in {"start", "awaitOptions", "checkRequest", "done", "rejected"}
        /\ pc # "done" => res = FreshRes
        /\ pc = "done" =>
              res = [statusCode |-> 405, statusCalls |-> 1, allow |-> "POST",
                     contentType |-> "", sends |-> 1,
                     body |-> [type |-> "text",
                               text |-> "Apollo Server supports only POST requests."]]

\* a GET without a parsed body, configured by a resolver function, answered
C3_Witness ==
    /\ route = "graphql" /\ req.method = "GET"
    /\ req.body.kind = "undefined"
    /\ options.isFunction
    /\ pc = "done" /\ res.statusCode = 405

\* C4: a POST on which no parsed body is present (req.body is undefined or
\* falsy) is answered 500 with the reminder text, and no result is produced.
C4_BodyMissing ==
    (IsPost /\ BodyAbsent) =>
        /\ pc \in {"start", "awaitOptions", "checkRequest", "done", "rejected"}
        /\ responses = <<>> /\ calls = <<>>
        /\ pc # "done" => res = FreshRes
        /\ pc = "done" =>
              res = [statusCode |-> 500, statusCalls |-> 1, allow |-> "",
                     contentType |-> "", sends |-> 1,
                     body |-> [type |-> "text",
                               text |-> "POST body missing. Did you forget \"app.use(bodyParser.json())\"?"]]

\* a POST without a body has been answered
C4_Witness ==
    /\ IsPost /\ req.body.kind = "undefined"
    /\ pc = "done" /\ res.statusCode = 500

\* C5: a non-batch POST is answered with the serialized single result, not
\* an array; the status is 400 exactly when that result has errors and no
\* data, and is otherwise left at the default 200.
C5_SingleStatus ==
    (IsPost /\ req.body.kind = "object" /\ pc = "done") =>
        /\ Len(responses) = 1
        /\ res.sends = 1
        /\ res.contentType = "application/json"
        /\ res.body.type = "json object"
        /\ IsJsonOf(res.body.json, responses[1])
        /\ res.statusCode = 400 <=>
              ("errors" \in DOMAIN res.body.json /\ "data" \notin DOMAIN res.body.json)
        /\ res.statusCode # 400 => (res.statusCode = 200 /\ res.statusCalls = 0)

\* a single query the executor answered with errors and no data: 400
C5_Witness ==
    /\ IsPost /\ req.body.kind = "object" /\ pc = "done"
    /\ calls # <<>> /\ raised = <<>>
    /\ res.statusCode = 400

\* C6: for a batch POST, whatever its length, the handler never sets a
\* status: it stays at the default 200 even when items have errors and no
\* data.
C6_BatchStatus ==
    (IsPost /\ req.body.kind = "array") =>
        /\ res.statusCalls = 0
        /\ res.statusCode = 200

\* a one-element batch whose only result has errors and no data, answered
C6_Witness ==
    /\ IsPost /\ req.body.kind = "array" /\ pc = "done"
    /\ Len(req.body.items) = 1
    /\ responses[1].data = Undefined /\ responses[1].errors # Undefined
    /\ res.sends = 1

\* the request supplies no query parameter
NoParameters ==
    \A f \in {"query", "variables", "operationName"} : req.query[f] = Undefined

\* the configuration sets a default for each of the three fields
AllDefaultsConfigured ==
    \A f \in {"query", "variables", "operationName"} :
        graphiqlOptions[f] # Undefined

\* C7: the explorer passes to the renderer, for query, variables and
\* operationName, the request's value when one is supplied and the
\* configured default otherwise: with no query parameter all three
\* configured defaults, with only ?query=foo the query foo and the other
\* two configured defaults.
C7_ExplorerDefaults ==
    (route = "graphiql" /\ pc = "done" /\ AllDefaultsConfigured) =>
        /\ NoParameters =>
              /\ rendered.query = graphiqlOptions.query
              /\ rendered.variables = graphiqlOptions.variables
              /\ rendered.operationName = graphiqlOptions.operationName
        /\ (req.query.query = Str("foo") /\ req.query.variables = Undefined
            /\ req.query.operationName = Undefined) =>
              /\ rendered.query = Str("foo")
              /\ rendered.variables = graphiqlOptions.variables
              /\ rendered.operationName = graphiqlOptions.operationName

\* C8: the items of a request are processed one after the other: at most
\* one executor call is pending, the handler is suspended on it, and every
\* earlier call has had its result appended before the next one is made.
C8_Sequential ==
    /\ Cardinality(inflight) <= 1
    /\ inflight # {} => (pc = "awaitRunQuery" /\ inflight = {idx})
    /\ \A k \in 1..Len(calls) :
          /\ calls[k].item <= Len(responses) + 1
          /\ calls[k].item = Len(responses) + 1 => inflight = {calls[k].item}
    /\ \A k \in 1..Len(raised) : raised[k].item <= Len(responses) + 1

\* the second executor call of a request is pending, the first has a result
C8_Witness ==
    /\ pc = "awaitRunQuery"
    /\ Len(calls) >= 2
    /\ Len(responses) >= 1

\* C9: a request turned away at request level (not POST, or no parsed body)
\* ends without the executor being invoked, without the JSON content type
\* and without a result; the executor is invoked only for requests that
\* pass both checks.
C9_NoExecutorOnReject ==
    route = "graphql" =>
        /\ (req.method # "POST" \/ BodyAbsent) =>
              /\ calls = <<>> /\ responses = <<>> /\ inflight = {}
              /\ res.contentType # "application/json"
              /\ res.body.type \in {"none", "text"}
              /\ pc \notin {"loop", "awaitRunQuery"}
        /\ calls # <<>> =>
              (req.method = "POST" /\ req.body.kind \in {"object", "array"})

\* a PUT carrying a batch has been turned away
C9_Witness ==
    /\ route = "graphql" /\ req.method = "PUT"
    /\ req.body.kind = "array" /\ Len(req.body.items) >= 1
    /\ pc = "done" /\ res.sends = 1

\* C10: every invocation of the handler sends exactly one response: never
\* more than one, and once the handler has finished (the configuration and
\* every executor call having settled) it has sent one.
C10_ExactlyOneResponse ==
    route = "graphql" =>
        /\ res.sends <= 1
        /\ pc \in {"done", "rejected"} => res.sends = 1

====
